---- MODULE Spec2Model ----
\* A model of stylegan2_pytorch/cli.py: train_from_folder, run_training and the
\* save callback on_model_save (checkpoint pruning and blob upload).
\* Strings are sequences of one-character strings, so that startswith, endswith,
\* os.path.split, str(), int() and the regular expression act on their text.
EXTENDS Integers, Sequences, FiniteSets, TLC

\* ------------------------------------------------------------------ bounds

\* Largest num_train_steps and largest step count of a loaded checkpoint.
MaxSteps ==
  1

\* Largest upload_every given on the command line (0 is included).
MaxEvery ==
  2

\* Most files on which os.remove fails during one call of on_model_save.
MaxFail ==
  1

\* The values of torch.cuda.device_count() on the hosts considered.
DeviceCounts ==
  {0, 1, 2}

\* ------------------------------------------------------- program constants

\* retry_call(model.train, tries=3, ...)
Tries ==
  3

\* _upload_every = 10 at module import
DefaultUploadEvery ==
  10

\* ----------------------------------------------------------------- strings

DigitSeq ==
  <<"0", "1", "2", "3", "4", "5", "6", "7", "8", "9">>

IsDigit(c) ==
  \E d \in 1..10 : DigitSeq[d] = c

DigitVal(c) ==
  (CHOOSE d \in 1..10 : DigitSeq[d] = c) - 1

RECURSIVE str(_)
\* str(n) of a non-negative int, as used by the f-string '{num}'
str(n) ==
  IF n < 10 THEN <<DigitSeq[n + 1]>>
  ELSE str(n \div 10) \o <<DigitSeq[(n % 10) + 1]>>

RECURSIVE int(_)
\* int(s) of a non-empty string of decimal digits
int(s) ==
  IF Len(s) = 1 THEN DigitVal(s[1])
  ELSE 10 * int(SubSeq(s, 1, Len(s) - 1)) + DigitVal(s[Len(s)])

startswith(s, p) ==
  /\ Len(p) <= Len(s)
  /\ SubSeq(s, 1, Len(p)) = p

endswith(s, p) ==
  /\ Len(p) <= Len(s)
  /\ SubSeq(s, Len(s) - Len(p) + 1, Len(s)) = p

\* index of the last "/" of p, 0 when there is none (p.rfind('/') + 1)
rfind_sep(p) ==
  IF \E k \in 1..Len(p) : p[k] = "/"
  THEN CHOOSE k \in 1..Len(p) : p[k] = "/" /\ \A j \in (k + 1)..Len(p) : p[j] # "/"
  ELSE 0

RECURSIVE rstrip_sep(_)
rstrip_sep(s) ==
  IF Len(s) > 0 /\ s[Len(s)] = "/" THEN rstrip_sep(SubSeq(s, 1, Len(s) - 1)) ELSE s

\* os.path.split(p): <<head, tail>> (split takes the value of p, so that p is
\* evaluated once)
path_split(p) ==
  LET split[q \in {p}] ==
        LET i == rfind_sep(q)
            head == SubSeq(q, 1, i)
            tail == SubSeq(q, i + 1, Len(q))
        IN  <<IF head # <<>> /\ (\E k \in 1..Len(head) : head[k] # "/")
              THEN rstrip_sep(head) ELSE head,
              tail>>
  IN  split[p]

MODEL_PREFIX ==
  <<"m", "o", "d", "e", "l", "_">>

PT_SUFFIX ==
  <<".", "p", "t">>

\* re.match(r'model_(\d+).pt', file_name): the lengths k of a digit run after
\* 'model_' that is followed by any one character (not a newline) and 'pt'
re_digit_runs(file_name) ==
  {k \in 1..Len(file_name) :
     /\ startswith(file_name, MODEL_PREFIX)
     /\ Len(file_name) >= Len(MODEL_PREFIX) + k + 3
     /\ \A j \in 1..k : IsDigit(file_name[Len(MODEL_PREFIX) + j])
     /\ file_name[Len(MODEL_PREFIX) + k + 1] # "\n"
     /\ file_name[Len(MODEL_PREFIX) + k + 2] = "p"
     /\ file_name[Len(MODEL_PREFIX) + k + 3] = "t"}

\* group 1 of the match, greedy; <<>> when re.match returns None (group takes
\* the value of file_name)
re_match_group(file_name) ==
  LET group[s \in {file_name}] ==
        LET ks == re_digit_runs(s)
        IN  IF ks = {} THEN <<>>
            ELSE LET k == CHOOSE x \in ks : \A y \in ks : y <= x
                 IN  SubSeq(s, Len(MODEL_PREFIX) + 1, Len(MODEL_PREFIX) + k)
  IN  group[file_name]

\* ------------------------------------------------------------- model_args

\* The ordinary keyword arguments of model_args (every key but save_callback and
\* the six hosting options); each holds the caller's argument, written "arg".
HyperKeys ==
  {"name", "results_dir", "models_dir", "batch_size", "gradient_accumulate_every",
   "image_size", "network_capacity", "fmap_max", "transparent", "lr", "lr_mlp",
   "ttur_mult", "rel_disc_loss", "num_workers", "save_every", "evaluate_every",
   "evaluate_callback", "num_image_tiles", "trunc_psi", "fp16", "no_pl_reg",
   "cl_reg", "fq_layers", "fq_dict_size", "attn_layers", "no_const", "aug_prob",
   "aug_types", "top_k_training", "generator_top_k_gamma", "generator_top_k_frac",
   "dual_contrast_loss", "dataset_aug_prob", "calculate_fid_every",
   "calculate_fid_num_images", "clear_fid_cache", "mixed_prob", "log", "lookahead",
   "lookahead_alpha", "lookahead_k", "ema_beta"}

\* The options marked "Vast.ai settings"
HostingKeys ==
  {"delete_old_models", "upload_models", "upload_every", "account_url",
   "credential", "container_name"}

EmptyDict ==
  [k \in {} |-> "arg"]

\* dict.update(**kv)
dict_update(d, kv) ==
  [k \in DOMAIN d \cup DOMAIN kv |-> IF k \in DOMAIN kv THEN kv[k] ELSE d[k]]

\* d.pop(key, None)
dict_pop(d, key) ==
  [k \in DOMAIN d \ {key} |-> d[k]]

\* model_args = dict(...) in train_from_folder
build_model_args(save_callback, delete_old_models, upload_models, upload_every) ==
  [k \in HyperKeys \cup {"save_callback"} \cup HostingKeys |->
     CASE k = "save_callback" -> save_callback
       [] k = "delete_old_models" -> delete_old_models
       [] k = "upload_models" -> upload_models
       [] k = "upload_every" -> upload_every
       [] OTHER -> "arg"]

\* ---------------------------------------------------------- module globals

\* _container_client (client: whether it is not None), _delete_old_models,
\* _upload_models, _upload_every as the module sets them at import
ModuleGlobals ==
  [client |-> FALSE, delete_old_models |-> FALSE, upload_models |-> FALSE,
   upload_every |-> DefaultUploadEvery]

\* ------------------------------------------------------------ on_model_save

\* the skip test written with "and" in place of "or"
is_model_file_either(i) ==
  startswith(i, MODEL_PREFIX) \/ endswith(i, PT_SUFFIX)

\* "Skip unexpected files": the entry is taken for a model file
is_model_file(i) ==
  startswith(i, MODEL_PREFIX) /\ endswith(i, PT_SUFFIX)

\* the entry compared with the whole path, which no entry equals
is_current_whole_path(model_path, i) ==
  model_path = i

\* "Skip the current model file"
is_current(model_path, i) ==
  endswith(model_path, i)

\* the loop removing numbered checkpoints only
prune_targets_numbered(model_path, listing) ==
  {i \in listing : /\ is_model_file(i)
                   /\ ~is_current(model_path, i)
                   /\ re_match_group(i) # <<>>}

\* the directory entries the loop calls os.remove on
prune_targets(model_path, listing) ==
  {i \in listing : is_model_file(i) /\ ~is_current(model_path, i)}

\* the loop without its try/except: the first OSError ends on_model_save
prune_raises(gl, model_path, listing, fail) ==
  LET targets == IF gl.delete_old_models THEN prune_targets(model_path, listing)
                 ELSE {}
  IN  IF targets \cap fail = {}
      THEN [attempted |-> targets, removed |-> targets, exc |-> "none"]
      ELSE [attempted |-> targets \cap fail, removed |-> {}, exc |-> "OSError"]

\* The pruning loop; fail is the set of entries on which os.remove raises
\* OSError. The error is caught inside the loop, so the loop goes on.
prune(gl, model_path, listing, fail) ==
  LET targets == IF gl.delete_old_models THEN prune_targets(model_path, listing)
                 ELSE {}
  IN  [attempted |-> targets, removed |-> targets \ fail, exc |-> "none"]

\* (model_num % _upload_every) == 0
upload_due(model_num, upload_every) ==
  model_num % upload_every = 0

\* The upload part: the exception it ends with, and the blob it uploads
upload(gl, model_path) ==
  LET file_path == path_split(model_path)[1]
      file_name == path_split(model_path)[2]
      model_name == path_split(file_path)[2]
      group == re_match_group(file_name)
      dest_path == model_name \o <<"/">> \o file_name
  IN  IF ~gl.upload_models THEN [exc |-> "none", uploaded |-> {}]
      ELSE IF group = <<>> THEN [exc |-> "AttributeError", uploaded |-> {}]
      ELSE IF gl.upload_every = 0 THEN [exc |-> "ZeroDivisionError", uploaded |-> {}]
      ELSE IF upload_due(int(group), gl.upload_every)
           THEN IF gl.client THEN [exc |-> "none", uploaded |-> {dest_path}]
                ELSE [exc |-> "AttributeError", uploaded |-> {}]
      ELSE [exc |-> "none", uploaded |-> {}]

\* on_model_save(model_path) under the globals gl, with the directory holding
\* listing: what it tried to remove, removed, uploaded, and how it ended
on_model_save(gl, model_path, listing, fail) ==
  LET pr == prune(gl, model_path, listing, fail)
      up == IF pr.exc = "none" THEN upload(gl, model_path)
            ELSE [exc |-> pr.exc, uploaded |-> {}]
  IN  [attempted |-> pr.attempted, removed |-> pr.removed,
       uploaded |-> up.uploaded, exc |-> up.exc]

\* ------------------------------------------------------------------ Trainer

\* models_dir / name, the checkpoint directory of the run
CheckpointDir ==
  <<"m", "/", "d">>

\* Trainer.model_name(num): models_dir/name/model_{num}.pt
model_name_of(num) ==
  CheckpointDir \o <<"/">> \o MODEL_PREFIX \o str(num) \o PT_SUFFIX

\* the checkpoint's name inside its directory
file_name_of(num) ==
  path_split(model_name_of(num))[2]

\* Trainer.checkpoint_num: the checkpoint index of the current step count
checkpoint_num(steps) ==
  steps

\* Files of the checkpoint directory that are no checkpoints and that the
\* run never removes: "x.pt" and "model_log"
KeptFiles ==
  {<<"x">> \o PT_SUFFIX, MODEL_PREFIX \o <<"l", "o", "g">>}

\* A file that is no checkpoint of the trainer either: "model_x.pt"
StrayFile ==
  MODEL_PREFIX \o <<"x">> \o PT_SUFFIX

\* What the checkpoint directory may hold before the first invocation
InitialDirs ==
  {KeptFiles \cup d : d \in SUBSET {StrayFile, file_name_of(0)}}

\* ----------------------------------------------------------------- state

\* Process 0 calls train_from_folder; process r + 1 is spawned rank r.
Procs ==
  {0} \cup UNION {1..n : n \in DeviceCounts}

VARIABLES
  pc,           \* per process: idle, join, loop, done, raised
  exc,          \* per process: the exception run_training ended with
  loc,          \* per process: run_training's rank, world_size, num_train_steps
  g,            \* per process: the module globals
  margs,        \* per process: the model_args mapping run_training works on;
                \*   margs[0] is the mapping train_from_folder holds
  tr,           \* per process: the Trainer and the retry_call around model.train
  dir,          \* names in the checkpoint directory
  device_count, \* torch.cuda.device_count() of the host
  caller,       \* who calls train_from_folder: "main" (the command line entry
                \*   point, one call) or "library" (any number of calls)
  called,       \* train_from_folder has been called in this process
  given,        \* the arguments model_args was constructed from
  mode,         \* path of the current invocation: none, generate,
                \*   generate_interpolation, single, spawn
  last          \* the call of on_model_save made by the step just taken

vars ==
  <<pc, exc, loc, g, margs, tr, dir, device_count, caller, called, given, mode, last>>

\* built: Trainer(...) was called; steps: model.steps; tries: failed attempts of
\* the current retry_call; saves: calls of model.save by run_training;
\* late: model.train was called with steps >= num_train_steps;
\* after_save: model.train was called after model.save
NoTrainer ==
  [built |-> FALSE, steps |-> 0, tries |-> 0, saves |-> 0,
   late |-> FALSE, after_save |-> FALSE]

NoLocals ==
  [rank |-> 0, world_size |-> 0, num_train_steps |-> 0]

NoCall ==
  [proc |-> -1, rank |-> 0, world_size |-> 0, gl |-> ModuleGlobals,
   model_path |-> <<>>, num |-> 0, before |-> {}, after |-> {}, fail |-> {},
   attempted |-> {}, uploaded |-> {}, exc |-> "none"]

NoArguments ==
  [save_callback |-> "None", delete_old_models |-> FALSE,
   upload_models |-> FALSE, upload_every |-> 0]

\* The state of a process that has imported the module, before its first call
\* of train_from_folder
Start ==
  /\ pc = [p \in Procs |-> "idle"]
  /\ exc = [p \in Procs |-> "none"]
  /\ loc = [p \in Procs |-> NoLocals]
  /\ g = [p \in Procs |-> ModuleGlobals]
  /\ margs = [p \in Procs |-> EmptyDict]
  /\ tr = [p \in Procs |-> NoTrainer]
  /\ called = FALSE
  /\ given = NoArguments
  /\ mode = "none"
  /\ last = NoCall

\* A process on a host with one device: the command line program, or a process
\* that calls train_from_folder as a library function any number of times
Init ==
  /\ Start
  /\ dir \in InitialDirs
  /\ device_count \in {n \in DeviceCounts : n = 1}
  /\ caller \in {"main", "library"}

\* The command line program (main: one call of train_from_folder) on a host
\* with no device or with several
InitDDP ==
  /\ Start
  /\ dir = KeptFiles \cup {StrayFile}
  /\ device_count \in {n \in DeviceCounts : n # 1}
  /\ caller = "main"

\* The command line program on a host with one device
InitCLI ==
  /\ Start
  /\ dir \in InitialDirs
  /\ device_count \in {n \in DeviceCounts : n = 1}
  /\ caller = "main"

\* -------------------------------------------------------------- run_training

\* every rank taken for the main one
is_main_every_rank(rank) ==
  rank >= 0

\* is_main = rank == 0
is_main(rank) ==
  rank = 0

\* The globals after the "if is_main:" block: the container client is built
\* when _upload_models is already set, then the three flags are read from
\* model_args.
run_training_globals(rank, gl, model_args) ==
  IF is_main(rank)
  THEN [client |-> gl.client \/ gl.upload_models,
        upload_models |-> model_args["upload_models"],
        upload_every |-> model_args["upload_every"],
        delete_old_models |-> model_args["delete_old_models"]]
  ELSE gl

\* the pops with 'name' written for 'container_name'
strip_hosting_name(model_args) ==
  dict_pop(dict_pop(dict_pop(dict_pop(dict_pop(dict_pop(model_args,
    "upload_models"), "upload_every"), "delete_old_models"), "account_url"),
    "credential"), "name")

\* the six model_args.pop(..., None) calls
strip_hosting(model_args) ==
  dict_pop(dict_pop(dict_pop(dict_pop(dict_pop(dict_pop(model_args,
    "upload_models"), "upload_every"), "delete_old_models"), "account_url"),
    "credential"), "container_name")

\* model_args as run_training leaves it, and as Trainer(**model_args) gets it
run_training_args(rank, world_size, model_args) ==
  LET a1 == dict_update(model_args, [is_ddp |-> world_size > 1, rank |-> rank,
                                     world_size |-> world_size])
      a2 == IF is_main(rank)
            THEN dict_update(a1, [save_callback |-> "on_model_save"])
            ELSE a1
  IN  strip_hosting(a2)

\* Trainer(**model_args), then model.load(load_from) (a checkpoint of loaded
\* steps) or model.clear()
Trainer(new, loaded) ==
  [NoTrainer EXCEPT !.built = TRUE, !.steps = IF new THEN 0 ELSE loaded]

\* The keyword arguments the trainer of process p was constructed with: the
\* content of margs[p] at Trainer(**model_args), which nothing changes later.
trainer_kwargs(p) ==
  margs[p]

\* --------------------------------------------------------- train_from_folder

\* model_args as train_from_folder constructed it in the current invocation
constructed ==
  build_model_args(given.save_callback, given.delete_old_models,
                   given.upload_models, given.upload_every)

\* world_size == 1 or not multi_gpus
single_process(world_size, multi_gpus) ==
  world_size = 1 \/ ~multi_gpus

\* A call of train_from_folder. The generate and generate_interpolation modes
\* construct the Trainer and are left to return. Otherwise run_training starts
\* in this process, or in one spawned process per device which has a copy of
\* model_args and freshly imported module globals. The step includes the part
\* of each run_training that comes before its loop, since that part reads and
\* writes nothing but the process's own model_args, globals and trainer.
train_from_folder(generate, generate_interpolation, multi_gpus, save_callback, delete_old_models, upload_models, upload_every, num_train_steps, new, loaded) ==
  LET model_args == build_model_args(save_callback, delete_old_models,
                                     upload_models, upload_every)
      world_size == device_count
      ranks == 1..world_size
  IN  /\ pc[0] = "idle"
      /\ caller = "main" => ~called
      /\ called' = TRUE
      /\ given' = [save_callback |-> save_callback,
                   delete_old_models |-> delete_old_models,
                   upload_models |-> upload_models, upload_every |-> upload_every]
      /\ last' = NoCall
      /\ exc' = [p \in Procs |-> "none"]
      /\ UNCHANGED <<dir, device_count, caller>>
      /\ IF generate \/ generate_interpolation
         THEN /\ mode' = IF generate THEN "generate" ELSE "generate_interpolation"
              /\ margs' = [p \in Procs |-> IF p = 0 THEN model_args ELSE EmptyDict]
              /\ tr' = [p \in Procs |-> IF p = 0 THEN Trainer(FALSE, loaded)
                                        ELSE NoTrainer]
              /\ loc' = [p \in Procs |-> NoLocals]
              /\ pc' = [pc EXCEPT ![0] = "done"]
              /\ UNCHANGED g
         ELSE IF single_process(world_size, multi_gpus)
         THEN /\ mode' = "single"
              /\ margs' = [p \in Procs |->
                             IF p = 0 THEN run_training_args(0, 1, model_args)
                             ELSE EmptyDict]
              /\ g' = [g EXCEPT ![0] = run_training_globals(0, g[0], model_args)]
              /\ tr' = [p \in Procs |-> IF p = 0 THEN Trainer(new, loaded)
                                        ELSE NoTrainer]
              /\ loc' = [p \in Procs |->
                           IF p = 0
                           THEN [rank |-> 0, world_size |-> 1,
                                 num_train_steps |-> num_train_steps]
                           ELSE NoLocals]
              /\ pc' = [pc EXCEPT ![0] = "loop"]
         ELSE /\ mode' = "spawn"
              /\ margs' = [p \in Procs |->
                             IF p \in ranks
                             THEN run_training_args(p - 1, world_size, model_args)
                             ELSE IF p = 0 THEN model_args ELSE EmptyDict]
              /\ g' = [p \in Procs |->
                         IF p \in ranks
                         THEN run_training_globals(p - 1, ModuleGlobals, model_args)
                         ELSE g[p]]
              /\ tr' = [p \in Procs |-> IF p \in ranks THEN Trainer(new, loaded)
                                        ELSE NoTrainer]
              /\ loc' = [p \in Procs |->
                           IF p \in ranks
                           THEN [rank |-> p - 1, world_size |-> world_size,
                                 num_train_steps |-> num_train_steps]
                           ELSE IF p = 0
                           THEN [NoLocals EXCEPT !.world_size = world_size]
                           ELSE NoLocals]
              /\ pc' = [p \in Procs |-> IF p = 0 THEN "join"
                                        ELSE IF p \in ranks THEN "loop" ELSE pc[p]]

\* train_from_folder returns to its caller, or an exception leaves it: the
\* locals of the invocation are gone, the module globals and the files stay.
\* In the spawn path this is the end of mp.spawn(..., join=True), when every
\* spawned process has ended.
Return ==
  /\ \/ pc[0] \in {"done", "raised"}
     \/ /\ pc[0] = "join"
        /\ \A p \in 1..loc[0].world_size : pc[p] \in {"done", "raised"}
  /\ pc' = [p \in Procs |-> "idle"]
  /\ exc' = [p \in Procs |-> "none"]
  /\ loc' = [p \in Procs |-> NoLocals]
  /\ g' = [p \in Procs |-> IF p = 0 THEN g[0] ELSE ModuleGlobals]
  /\ margs' = [p \in Procs |-> EmptyDict]
  /\ tr' = [p \in Procs |-> NoTrainer]
  /\ given' = NoArguments
  /\ mode' = "none"
  /\ last' = NoCall
  /\ UNCHANGED <<dir, device_count, caller, called>>

\* ------------------------------------------------------- the training loop

\* the loop test written with <=
loop_continues_le(steps, num_train_steps) ==
  steps <= num_train_steps

\* while model.steps < num_train_steps
loop_continues(steps, num_train_steps) ==
  steps < num_train_steps

\* tries counted as retries: one more attempt is made
retry_exhausted_later(failures) ==
  failures > Tries

\* retry_call(model.train, tries=3, exceptions=NanException): after this many
\* failed attempts the exception is raised to the caller
retry_exhausted(failures) ==
  failures >= Tries

\* model.train is being called: by the loop, or by a retry inside retry_call
train_called(p) ==
  /\ pc[p] = "loop"
  /\ \/ tr[p].tries > 0
     \/ loop_continues(tr[p].steps, loc[p].num_train_steps)

\* the trainer of p after one more call of model.train
train_noted(p) ==
  [tr[p] EXCEPT
     !.late = tr[p].late \/ ~(tr[p].steps < loc[p].num_train_steps),
     !.after_save = tr[p].after_save \/ tr[p].saves > 0]

NoEffect ==
  [attempted |-> {}, removed |-> {}, uploaded |-> {}, exc |-> "none"]

\* the entries on which os.remove may fail during Trainer.save(num) by p
fail_choices(p, num) ==
  IF trainer_kwargs(p)["save_callback"] = "on_model_save"
  THEN {f \in SUBSET prune(g[p], model_name_of(num), dir \cup {file_name_of(num)},
                           {}).attempted : Cardinality(f) <= MaxFail}
  ELSE {{}}

\* Trainer.save(num) by process p: the checkpoint is written, then the save
\* callback is called with its path
Trainer_save(p, num, fail) ==
  LET listing == dir \cup {file_name_of(num)}
      has_cb == trainer_kwargs(p)["save_callback"] = "on_model_save"
      r == IF has_cb THEN on_model_save(g[p], model_name_of(num), listing, fail)
           ELSE NoEffect
  IN  [dir |-> listing \ r.removed,
       exc |-> r.exc,
       last |-> IF has_cb
                THEN [proc |-> p, rank |-> loc[p].rank,
                      world_size |-> loc[p].world_size, gl |-> g[p],
                      model_path |-> model_name_of(num), num |-> num,
                      before |-> listing, after |-> listing \ r.removed,
                      fail |-> fail, attempted |-> r.attempted,
                      uploaded |-> r.uploaded, exc |-> r.exc]
                ELSE NoCall]

\* model.train() returns: the step count grows; the trainer may save a
\* checkpoint, and an exception of the save callback leaves run_training.
TrainOk(p) ==
  /\ train_called(p)
  /\ \E inc \in {1, 2}, doSave \in BOOLEAN :
       LET steps1 == tr[p].steps + inc
           num == checkpoint_num(steps1)
       IN  \E fail \in IF doSave THEN fail_choices(p, num) ELSE {{}} :
             \E eff \in {IF doSave THEN Trainer_save(p, num, fail)
                         ELSE [dir |-> dir, exc |-> "none", last |-> NoCall]} :
                 /\ tr' = [tr EXCEPT ![p] = [train_noted(p) EXCEPT
                                               !.steps = steps1, !.tries = 0]]
                 /\ dir' = eff.dir
                 /\ last' = eff.last
                 /\ exc' = [exc EXCEPT ![p] = eff.exc]
                 /\ pc' = [pc EXCEPT ![p] = IF eff.exc = "none" THEN "loop"
                                            ELSE "raised"]
  /\ UNCHANGED <<loc, g, margs, device_count, caller, called, given, mode>>

\* model.train() raises NanException: retry_call calls it again at once, or
\* raises when the tries are used up
TrainNan(p) ==
  /\ train_called(p)
  /\ tr' = [tr EXCEPT ![p] = [train_noted(p) EXCEPT !.tries = tr[p].tries + 1]]
  /\ IF retry_exhausted(tr[p].tries + 1)
     THEN /\ pc' = [pc EXCEPT ![p] = "raised"]
          /\ exc' = [exc EXCEPT ![p] = "NanException"]
     ELSE UNCHANGED <<pc, exc>>
  /\ last' = NoCall
  /\ UNCHANGED <<loc, g, margs, dir, device_count, caller, called, given, mode>>

\* model.train() raises an exception that is no NanException
TrainOther(p) ==
  /\ train_called(p)
  /\ tr' = [tr EXCEPT ![p] = train_noted(p)]
  /\ pc' = [pc EXCEPT ![p] = "raised"]
  /\ exc' = [exc EXCEPT ![p] = "Exception"]
  /\ last' = NoCall
  /\ UNCHANGED <<loc, g, margs, dir, device_count, caller, called, given, mode>>

\* The loop has ended: model.save(model.checkpoint_num)
FinalSave(p) ==
  /\ pc[p] = "loop"
  /\ tr[p].tries = 0
  /\ ~loop_continues(tr[p].steps, loc[p].num_train_steps)
  /\ \E fail \in fail_choices(p, checkpoint_num(tr[p].steps)) :
       \E eff \in {Trainer_save(p, checkpoint_num(tr[p].steps), fail)} :
           /\ tr' = [tr EXCEPT ![p].saves = tr[p].saves + 1]
           /\ dir' = eff.dir
           /\ last' = eff.last
           /\ exc' = [exc EXCEPT ![p] = eff.exc]
           /\ pc' = [pc EXCEPT ![p] = IF eff.exc = "none" THEN "done" ELSE "raised"]
  /\ UNCHANGED <<loc, g, margs, device_count, caller, called, given, mode>>

\* one step of the loop of run_training in process p
Step(p) ==
  \/ TrainOk(p)
  \/ TrainNan(p)
  \/ TrainOther(p)
  \/ FinalSave(p)

\* A call of train_from_folder with the arguments the caller chooses. The
\* generate modes read neither multi_gpus, num_train_steps nor new, and the
\* step count of the checkpoint they load is not used; multi_gpus is read only
\* when the device count is not 1; model.clear() stands for a load of 0 steps.
\* Only the command line program is taken to use the generate modes.
Invoke ==
  \E delete_old_models, upload_models \in BOOLEAN, upload_every \in 0..MaxEvery,
     save_callback \in {"None", "user"} :
    \/ \E generate, generate_interpolation \in BOOLEAN :
         /\ caller = "main"
         /\ generate \/ generate_interpolation
         /\ train_from_folder(generate, generate_interpolation, FALSE,
                              save_callback, delete_old_models, upload_models,
                              upload_every, 0, FALSE, 0)
    \/ \E multi_gpus \in IF device_count = 1 THEN {FALSE} ELSE BOOLEAN,
          new \in BOOLEAN, num_train_steps \in 0..MaxSteps :
         \E loaded \in IF new THEN {0} ELSE 0..MaxSteps :
           train_from_folder(FALSE, FALSE, multi_gpus, save_callback,
                             delete_old_models, upload_models, upload_every,
                             num_train_steps, new, loaded)

Next ==
  \/ Invoke
  \/ Return
  \/ \E p \in Procs : Step(p)

Spec ==
  Init /\ [][Next]_vars

SpecDDP ==
  InitDDP /\ [][Next]_vars

SpecCLI ==
  InitCLI /\ [][Next]_vars

\* Every process that is running run_training goes on running it.
FairSpec ==
  InitCLI /\ [][Next]_vars /\ \A p \in Procs : WF_vars(Step(p))

\* ------------------------------------------------------------------- claims

\* the step just taken called on_model_save
Called ==
  last.proc # -1

\* the name of the checkpoint being saved by that call
current_name ==
  path_split(last.model_path)[2]

\* the blob name that call uploads to: <run name>/<file name>
current_dest ==
  path_split(path_split(last.model_path)[1])[2] \o <<"/">> \o current_name

\* model_ followed by a decimal number followed by .pt
matches_pattern(i) ==
  /\ Len(i) > Len(MODEL_PREFIX) + Len(PT_SUFFIX)
  /\ startswith(i, MODEL_PREFIX)
  /\ endswith(i, PT_SUFFIX)
  /\ \A k \in (Len(MODEL_PREFIX) + 1)..(Len(i) - Len(PT_SUFFIX)) : IsDigit(i[k])

\* model_*.pt
is_checkpoint_name(i) ==
  startswith(i, MODEL_PREFIX) /\ endswith(i, PT_SUFFIX)

\* C1: with upload_models enabled, every checkpoint model_<n>.pt reported to
\* on_model_save is uploaded if and only if n is divisible by upload_every.
C1_UploadIffDivisible ==
  (Called /\ last.gl.upload_models /\ last.gl.upload_every # 0)
    => (last.uploaded = {current_dest} <=> last.num % last.gl.upload_every = 0)

\* C2: with delete_old_models enabled, the pruning loop never removes the
\* checkpoint being saved: it is in the directory after the call if it was
\* there before, and os.remove is not called on it.
C2_CurrentNeverRemoved ==
  (Called /\ last.gl.delete_old_models /\ current_name \in last.before)
    => (current_name \in last.after /\ current_name \notin last.attempted)

\* C2 witness: a call that removed other files and kept the current checkpoint
C2_Witness ==
  /\ Called
  /\ last.gl.delete_old_models
  /\ last.before \ last.after # {}
  /\ current_name \in last.before \cap last.after

\* C3 as stated: a file whose name is not model_<decimal>.pt is left in place
\* and no delete is attempted on it.
C3_NonPatternSkipped ==
  Called => \A i \in last.before :
              ~matches_pattern(i) => (i \notin last.attempted /\ i \in last.after)

\* C3 amended: a file whose name does not start with model_ or does not end
\* with .pt is left in place and no delete is attempted on it.
C3_NonModelFileSkipped ==
  Called => \A i \in last.before :
              (~startswith(i, MODEL_PREFIX) \/ ~endswith(i, PT_SUFFIX))
                => (i \notin last.attempted /\ i \in last.after)

\* C3 witness: a pruning call that removed files while x.pt and model_log,
\* both in the directory, were skipped
C3_Witness ==
  /\ Called
  /\ last.gl.delete_old_models
  /\ last.before \ last.after # {}
  /\ KeptFiles \subseteq last.before \cap last.after

\* C4: after a call with delete_old_models enabled and no removal error, the
\* only model_*.pt file left is the checkpoint just saved, and nothing but
\* that checkpoint is uploaded by the call.
C4_OnlyCurrentLeft ==
  (Called /\ last.gl.delete_old_models /\ last.fail = {})
    => /\ {i \in last.after : is_checkpoint_name(i)} = {current_name}
       /\ last.uploaded \subseteq {current_dest}

\* C4 witness: a call that removed two other model files and uploaded the
\* checkpoint just saved
C4_Witness ==
  /\ Called
  /\ last.gl.delete_old_models
  /\ last.fail = {}
  /\ Cardinality(last.before \ last.after) >= 2
  /\ last.uploaded = {current_dest}

\* C5 as stated: the NanException propagates once three retries have failed,
\* that is after the first call and three more.
C5_ThreeRetries ==
  \A p \in Procs : exc[p] = "NanException" => tr[p].tries = 1 + 3

\* the retry_call of each process: fewer than three failures while it goes on,
\* NanException raised at the third, any other exception raised at once, and
\* no model.save once an exception has left the loop
C5_Inv ==
  \A p \in Procs :
    /\ pc[p] = "loop" => tr[p].tries < Tries
    /\ exc[p] = "NanException"
         => (pc[p] = "raised" /\ tr[p].tries = Tries /\ tr[p].saves = 0)
    /\ exc[p] = "Exception"
         => (pc[p] = "raised" /\ tr[p].tries < Tries /\ tr[p].saves = 0)

\* a process whose run_training raised calls neither train nor save again, and
\* a retry comes before any model.save
C5_Step ==
  \A p \in Procs :
    /\ pc[p] = "raised" => (tr'[p] = tr[p] \/ ~tr'[p].built)
    /\ tr[p].tries > 0 => (tr'[p].saves = tr[p].saves \/ ~tr'[p].built)

\* C5 amended: in each iteration model.train is called at most three times (a
\* NanException is retried at once, at most twice); the third NanException
\* propagates out of run_training, and no train call and no model.save
\* follows. Any other exception propagates on its first occurrence.
C5_ThreeAttempts ==
  []C5_Inv /\ [][C5_Step]_vars

\* C5 witness: run_training left by the NanException of a third attempt
C5_Witness ==
  \E p \in Procs : exc[p] = "NanException" /\ tr[p].tries = Tries

\* C6: an OSError of os.remove does not leave on_model_save; the loop goes on
\* with every other entry, and the upload is decided as without the error.
C6_RemoveErrorIgnored ==
  (Called /\ last.fail # {})
    => /\ last.exc # "OSError"
       /\ last.attempted = {i \in last.before :
                              is_checkpoint_name(i) /\ i # current_name}
       /\ last.after = last.before \ (last.attempted \ last.fail)
       /\ LET clean == on_model_save(last.gl, last.model_path, last.before, {})
          IN  last.uploaded = clean.uploaded /\ last.exc = clean.exc

\* C6 witness: os.remove failed on one file, another was removed, and the
\* checkpoint was uploaded
C6_Witness ==
  /\ Called
  /\ last.fail # {}
  /\ last.before \ last.after # {}
  /\ last.uploaded = {current_dest}

\* the mapping run_training(0, 1, ...) leaves in place of the constructed one
single_process_args ==
  [k \in HyperKeys \cup {"save_callback", "is_ddp", "rank", "world_size"} |->
     CASE k = "save_callback" -> "on_model_save"
       [] k = "is_ddp" -> FALSE
       [] k = "rank" -> 0
       [] k = "world_size" -> 1
       [] OTHER -> constructed[k]]

\* C7 as stated: no step of the invocation changes the mapping that
\* train_from_folder holds.
C7_ModelArgsImmutable ==
  mode # "none" => margs[0] = constructed

\* C7 amended: in the generate modes and in the multi-process path the mapping
\* train_from_folder holds stays as constructed (a spawned rank changes its own
\* copy); in the single-process path run_training changes it in place: it adds
\* is_ddp, rank and world_size, sets save_callback and removes the six hosting
\* options. Every other key keeps its value, and each trainer receives it.
C7_ModelArgsChanges ==
  /\ mode \in {"generate", "generate_interpolation", "spawn"}
       => margs[0] = constructed
  /\ mode = "single" => margs[0] = single_process_args
  /\ \A p \in Procs :
       tr[p].built => \A k \in HyperKeys :
                        /\ k \in DOMAIN trainer_kwargs(p)
                        /\ trainer_kwargs(p)[k] = constructed[k]

\* C7 witness: a spawned rank has ended with a changed copy while the mapping
\* of train_from_folder is as constructed
C7_Witness ==
  /\ mode = "spawn"
  /\ \E p \in Procs : /\ pc[p] = "done"
                      /\ tr[p].built
                      /\ DOMAIN margs[p] # DOMAIN margs[0]
  /\ margs[0] = constructed

\* C8: model.train is called only while steps < num_train_steps; model.save
\* is called at most once, after the last train call and with
\* steps >= num_train_steps; a run_training that returns has called it once.
C8_Inv ==
  \A p \in Procs :
    /\ ~tr[p].late
    /\ ~tr[p].after_save
    /\ tr[p].saves <= 1
    /\ tr[p].saves = 1 => (/\ tr[p].steps >= loc[p].num_train_steps
                           /\ pc[p] \in {"done", "raised"})
    /\ (pc[p] = "done" /\ mode \in {"single", "spawn"}) => tr[p].saves = 1

\* C8: run_training terminates (it returns after its one model.save, or an
\* exception leaves it), and C8_Inv holds throughout.
C8_Terminates ==
  /\ []C8_Inv
  /\ \A p \in Procs : (pc[p] = "loop") ~> (pc[p] \in {"done", "raised"})

\* C8 witness: run_training has returned after training past num_train_steps
C8_Witness ==
  /\ mode = "single"
  /\ pc[0] = "done"
  /\ tr[0].saves = 1
  /\ tr[0].steps > loc[0].num_train_steps
  /\ tr[0].steps > MaxSteps

\* C9: no Trainer is constructed with any of the six hosting options, on any
\* path (generate, generate_interpolation, single process, every spawned rank).
C9_NoHostingEver ==
  \A p \in Procs : tr[p].built => DOMAIN trainer_kwargs(p) \cap HostingKeys = {}

\* C10: in a multi-process run without a save_callback of the user, the rank 0
\* process alone has on_model_save as its save callback and has set the
\* globals; every call of on_model_save is made by rank 0.
C10_OnlyRankZeroPrunes ==
  (mode = "spawn" /\ given.save_callback = "None")
    => /\ \A p \in Procs :
            tr[p].built
              => /\ trainer_kwargs(p)["save_callback"] = "on_model_save"
                      <=> loc[p].rank = 0
                 /\ loc[p].rank # 0 => g[p] = ModuleGlobals
       /\ Called => last.rank = 0

\* C10 witness: rank 1 has made its final save, and rank 0 prunes
C10_Witness ==
  /\ mode = "spawn"
  /\ given.save_callback = "None"
  /\ Called
  /\ last.rank = 0
  /\ last.world_size > 1
  /\ last.before \ last.after # {}
  /\ \E p \in Procs : loc[p].rank = 1 /\ tr[p].saves = 1

====
